---- MODULE Spec2Model ----
(***************************************************************************)
(* Model of the skill validator, scripts/validate_skill.py.                *)
(*                                                                         *)
(* A Python str is a sequence of one-character strings.  A Python value    *)
(* held by the metadata mapping is a record [t, s, n]: t is the type name  *)
(* ("NoneType", "str", "int", "list", "dict"), s the characters of a str,  *)
(* n the value of an int or the len() of a list or dict.  The metadata     *)
(* mapping (a dict) is a sequence of [k, v] pairs with distinct keys, in   *)
(* insertion order.                                                        *)
(***************************************************************************)
EXTENDS Integers, Sequences, FiniteSets, TLC

\* The module global `yaml`: TRUE when PyYAML was imported, FALSE when the
\* import failed and the source set it to None.
VARIABLE yaml

(***************************************************************************)
(* Characters and the str methods the validator uses.                      *)
(***************************************************************************)
LOWERS == <<"a","b","c","d","e","f","g","h","i","j","k","l","m",
            "n","o","p","q","r","s","t","u","v","w","x","y","z">>
UPPERS == <<"A","B","C","D","E","F","G","H","I","J","K","L","M",
            "N","O","P","Q","R","S","T","U","V","W","X","Y","Z">>
DIGITS == <<"0","1","2","3","4","5","6","7","8","9">>

Range(f) == {f[i] : i \in DOMAIN f}

LowerSet == Range(LOWERS)
UpperSet == Range(UPPERS)
DigitSet == Range(DIGITS)

\* The characters str.strip() and str.split() treat as whitespace.
Whitespace == {" ", "\t", "\n", "\r"}

\* The backquote character (code point 96), which a string of this language
\* cannot hold: one token stands for it.
Backtick == "BACKTICK"

\* The characters of the model in code-point order: sorted() compares by it.
ASCII == <<"\t", "\n", "\r", " ", "!", "\"", "#", "'", "(", ")", ",", "-", ".", "/">>
         \o DIGITS \o <<":", "<", ">">> \o UPPERS
         \o <<"[", "]", "_", Backtick>> \o LOWERS \o <<"{", "}">>

Ord(c) == CHOOSE i \in DOMAIN ASCII : ASCII[i] = c

\* str.lower()
LowerChar(c) == IF c \in UpperSet
                THEN LOWERS[CHOOSE i \in DOMAIN UPPERS : UPPERS[i] = c]
                ELSE c

Lower(s) == [i \in 1..Len(s) |-> LowerChar(s[i])]

\* sub in s
Contains(s, sub) ==
    \E i \in 1..(Len(s) - Len(sub) + 1) : \A j \in 1..Len(sub) : s[i + j - 1] = sub[j]

\* s.startswith(p), s.endswith(p)
StartsWith(s, p) == Len(s) >= Len(p) /\ SubSeq(s, 1, Len(p)) = p

EndsWith(s, p) == Len(s) >= Len(p) /\ SubSeq(s, Len(s) - Len(p) + 1, Len(s)) = p

\* s.strip()
Strip(s) ==
    IF \A i \in 1..Len(s) : s[i] \in Whitespace THEN <<>>
    ELSE SubSeq(s,
            CHOOSE i \in 1..Len(s) :
                s[i] \notin Whitespace /\ \A j \in 1..(i - 1) : s[j] \in Whitespace,
            CHOOSE i \in 1..Len(s) :
                s[i] \notin Whitespace /\ \A j \in (i + 1)..Len(s) : s[j] \in Whitespace)

\* len(s.split("\n")) instead: the lines counted, not the words
WordCount_lines(s) == Cardinality({i \in 1..Len(s) : s[i] = "\n"}) + 1

\* len(s.split()): the number of maximal runs of non-whitespace characters
WordCount(s) ==
    Cardinality({i \in 1..Len(s) :
        s[i] \notin Whitespace /\ (i = 1 \/ s[i - 1] \in Whitespace)})

\* s * n
Rep(s, n) == [i \in 1..(n * Len(s)) |-> s[((i - 1) % Len(s)) + 1]]

\* a < b for two str, as Python compares them
StrLess(a, b) ==
    \E i \in 1..(Len(a) + 1) :
        /\ \A j \in 1..(i - 1) : j <= Len(b) /\ a[j] = b[j]
        /\ i <= Len(b)
        /\ (i = Len(a) + 1 \/ Ord(a[i]) < Ord(b[i]))

\* sorted(S) for a set of str
Sorted(S) ==
    [i \in 1..Cardinality(S) |->
        CHOOSE x \in S : Cardinality({y \in S : StrLess(y, x)}) = i - 1]

(***************************************************************************)
(* Python values.                                                          *)
(***************************************************************************)
PyNone == [t |-> "NoneType", s |-> <<>>, n |-> 0]

PyStr(s) == [t |-> "str", s |-> s, n |-> 0]

PyInt(n) == [t |-> "int", s |-> <<>>, n |-> n]

PyList(n) == [t |-> "list", s |-> <<>>, n |-> n]

PyDict(n) == [t |-> "dict", s |-> <<>>, n |-> n]

\* bool(v): the truth value `not v` and `if v` test
Truthy(v) == CASE v.t = "NoneType" -> FALSE
               [] v.t = "str"      -> v.s # <<>>
               [] OTHER            -> v.n # 0

(***************************************************************************)
(* Issues.  A message is its fixed text, the strings formatted into it     *)
(* (args) and the number formatted into it (n).                            *)
(***************************************************************************)
Msg(text) == [text |-> text, args |-> <<>>, n |-> 0]

MsgN(text, n) == [text |-> text, args |-> <<>>, n |-> n]

MsgArgs(text, args) == [text |-> text, args |-> args, n |-> 0]

ValidationIssue(level, field, message) ==
    [level |-> level, field |-> field, message |-> message]

\* Anthropic skills constraints
NAME_MAX_LENGTH == 64

DESCRIPTION_MAX_LENGTH == 1024

RESERVED_WORDS == << <<"a","n","t","h","r","o","p","i","c">>,
                     <<"c","l","a","u","d","e">> >>

ALLOWED_FRONTMATTER_PROPERTIES ==
    { <<"n","a","m","e">>,
      <<"d","e","s","c","r","i","p","t","i","o","n">>,
      <<"l","i","c","e","n","s","e">>,
      <<"a","l","l","o","w","e","d","-","t","o","o","l","s">>,
      <<"m","e","t","a","d","a","t","a">> }

\* `$` matches at the end of the string and just before a newline ending it.
DollarEnds(s) ==
    {s} \cup (IF Len(s) > 0 /\ s[Len(s)] = "\n" THEN {SubSeq(s, 1, Len(s) - 1)} ELSE {})

\* NAME_PATTERN.match(name): ^[a-z0-9][a-z0-9-]*[a-z0-9]$|^[a-z0-9]$
NAME_PATTERN(name) ==
    \E t \in DollarEnds(name) :
        \/ /\ Len(t) >= 2
           /\ t[1] \in LowerSet \cup DigitSet
           /\ \A i \in 2..(Len(t) - 1) : t[i] \in LowerSet \cup DigitSet \cup {"-"}
           /\ t[Len(t)] \in LowerSet \cup DigitSet
        \/ /\ Len(t) = 1
           /\ t[1] \in LowerSet \cup DigitSet

\* re.match(r'^[a-z0-9-]+$', name)
HyphenAlnumOnly(name) ==
    \E t \in DollarEnds(name) :
        Len(t) >= 1 /\ \A i \in 1..Len(t) : t[i] \in LowerSet \cup DigitSet \cup {"-"}

(***************************************************************************)
(* The rules.                                                              *)
(***************************************************************************)
\* set(frontmatter.keys()) - ALLOWED_FRONTMATTER_PROPERTIES
unexpected_keys(frontmatter) ==
    {frontmatter[i].k : i \in DOMAIN frontmatter}
        \ {PyStr(a) : a \in ALLOWED_FRONTMATTER_PROPERTIES}

\* sorted() of keys of mixed types and ', '.join() of a key that is no str
\* raise TypeError.
validate_frontmatter_properties_raises(frontmatter) ==
    \E k \in unexpected_keys(frontmatter) : k.t # "str"

validate_frontmatter_properties(frontmatter) ==
    IF unexpected_keys(frontmatter) # {}
    THEN << ValidationIssue("error", "frontmatter",
              MsgArgs("Unexpected frontmatter properties: {}. Allowed: {}",
                      << Sorted({k.s : k \in unexpected_keys(frontmatter)}),
                         Sorted(ALLOWED_FRONTMATTER_PROPERTIES) >>)) >>
    ELSE <<>>

\* The format check of validate_name: at most one issue, by the first cause.
NameFormatIssues(name) ==
    IF ~NAME_PATTERN(name)
    THEN IF name # Lower(name)
         THEN <<ValidationIssue("error", "name", Msg("Field 'name' must be lowercase"))>>
         ELSE IF Contains(name, <<" ">>)
         THEN <<ValidationIssue("error", "name",
                    Msg("Field 'name' cannot contain spaces (use hyphens)"))>>
         ELSE IF Contains(name, <<"_">>)
         THEN <<ValidationIssue("warning", "name",
                    Msg("Field 'name' uses underscores (prefer hyphens for consistency)"))>>
         ELSE IF ~HyphenAlnumOnly(name)
         THEN <<ValidationIssue("error", "name",
                    Msg("Field 'name' must contain only lowercase letters, numbers, and hyphens"))>>
         ELSE <<>>
    ELSE <<>>

\* The reserved words check: one Error per reserved word, in list order.
NameReservedIssues(name) ==
    LET hit(i) == IF Contains(Lower(name), RESERVED_WORDS[i])
                  THEN <<ValidationIssue("error", "name",
                           MsgArgs("Field 'name' cannot contain reserved word '{}'",
                                   <<RESERVED_WORDS[i]>>))>>
                  ELSE <<>>
    IN  hit(1) \o hit(2)

validate_name_nested(name) ==
    IF ~Truthy(name)
    THEN <<ValidationIssue("error", "name", Msg("Required field 'name' is missing"))>>
    ELSE IF name.t # "str"
    THEN <<ValidationIssue("error", "name",
               Msg("Field 'name' must be a string, got " \o name.t))>>
    ELSE IF ~NAME_PATTERN(name.s)
    THEN NameFormatIssues(name.s)
    ELSE (IF Len(name.s) > NAME_MAX_LENGTH
          THEN <<ValidationIssue("error", "name",
                    MsgN("Field 'name' exceeds 64 characters (got {})", Len(name.s)))>>
          ELSE <<>>)
         \o NameReservedIssues(name.s)
         \o (IF Contains(name.s, <<"<">>) \/ Contains(name.s, <<">">>)
             THEN <<ValidationIssue("error", "name",
                       Msg("Field 'name' cannot contain XML tags"))>>
             ELSE <<>>)

\* No return after the missing-name Error
validate_name_nostop(name) ==
    (IF ~Truthy(name)
     THEN <<ValidationIssue("error", "name", Msg("Required field 'name' is missing"))>>
     ELSE <<>>)
    \o (IF name.t # "str"
        THEN (IF Truthy(name)
              THEN <<ValidationIssue("error", "name",
                         Msg("Field 'name' must be a string, got " \o name.t))>>
              ELSE <<>>)
        ELSE (IF Len(name.s) > NAME_MAX_LENGTH
              THEN <<ValidationIssue("error", "name",
                        MsgN("Field 'name' exceeds 64 characters (got {})", Len(name.s)))>>
              ELSE <<>>)
             \o NameFormatIssues(name.s)
             \o NameReservedIssues(name.s)
             \o (IF Contains(name.s, <<"<">>) \/ Contains(name.s, <<">">>)
                 THEN <<ValidationIssue("error", "name",
                           Msg("Field 'name' cannot contain XML tags"))>>
                 ELSE <<>>))

validate_name(name) ==
    IF ~Truthy(name)
    THEN <<ValidationIssue("error", "name", Msg("Required field 'name' is missing"))>>
    ELSE IF name.t # "str"
    THEN <<ValidationIssue("error", "name",
               Msg("Field 'name' must be a string, got " \o name.t))>>
    ELSE (IF Len(name.s) > NAME_MAX_LENGTH
          THEN <<ValidationIssue("error", "name",
                    MsgN("Field 'name' exceeds 64 characters (got {})", Len(name.s)))>>
          ELSE <<>>)
         \o NameFormatIssues(name.s)
         \o NameReservedIssues(name.s)
         \o (IF Contains(name.s, <<"<">>) \/ Contains(name.s, <<">">>)
             THEN <<ValidationIssue("error", "name",
                       Msg("Field 'name' cannot contain XML tags"))>>
             ELSE <<>>)

trigger_indicators ==
    { <<"w","h","e","n">>,
      <<"u","s","e"," ","t","h","i","s">>,
      <<"s","h","o","u","l","d"," ","b","e"," ","u","s","e","d">>,
      <<"h","e","l","p","s"," ","w","i","t","h">>,
      <<"f","o","r">> }

\* The quality checks under an else of the two Error checks
validate_description_quality_else(description) ==
    IF ~Truthy(description)
    THEN <<ValidationIssue("error", "description",
               Msg("Required field 'description' is missing"))>>
    ELSE IF description.t # "str"
    THEN <<ValidationIssue("error", "description",
               Msg("Field 'description' must be a string, got " \o description.t))>>
    ELSE IF Strip(description.s) = <<>>
    THEN <<ValidationIssue("error", "description",
               Msg("Field 'description' cannot be empty"))>>
    ELSE IF Len(description.s) > DESCRIPTION_MAX_LENGTH
            \/ Contains(description.s, <<"<">>) \/ Contains(description.s, <<">">>)
    THEN (IF Len(description.s) > DESCRIPTION_MAX_LENGTH
          THEN <<ValidationIssue("error", "description",
                    MsgN("Field 'description' exceeds 1024 characters (got {})",
                         Len(description.s)))>>
          ELSE <<>>)
         \o (IF Contains(description.s, <<"<">>) \/ Contains(description.s, <<">">>)
             THEN <<ValidationIssue("error", "description",
                       Msg("Field 'description' cannot contain XML tags"))>>
             ELSE <<>>)
    ELSE (IF Len(description.s) < 50
          THEN <<ValidationIssue("warning", "description",
                    Msg("Field 'description' is quite short - consider adding more detail"))>>
          ELSE <<>>)
         \o (IF ~\E indicator \in trigger_indicators :
                     Contains(Lower(description.s), indicator)
             THEN <<ValidationIssue("warning", "description",
                       Msg("Description lacks trigger phrases - consider explaining when to use this skill"))>>
             ELSE <<>>)

validate_description(description) ==
    IF ~Truthy(description)
    THEN <<ValidationIssue("error", "description",
               Msg("Required field 'description' is missing"))>>
    ELSE IF description.t # "str"
    THEN <<ValidationIssue("error", "description",
               Msg("Field 'description' must be a string, got " \o description.t))>>
    ELSE IF Strip(description.s) = <<>>
    THEN <<ValidationIssue("error", "description",
               Msg("Field 'description' cannot be empty"))>>
    ELSE (IF Len(description.s) > DESCRIPTION_MAX_LENGTH
          THEN <<ValidationIssue("error", "description",
                    MsgN("Field 'description' exceeds 1024 characters (got {})",
                         Len(description.s)))>>
          ELSE <<>>)
         \o (IF Contains(description.s, <<"<">>) \/ Contains(description.s, <<">">>)
             THEN <<ValidationIssue("error", "description",
                       Msg("Field 'description' cannot contain XML tags"))>>
             ELSE <<>>)
         \o (IF Len(description.s) < 50
             THEN <<ValidationIssue("warning", "description",
                       Msg("Field 'description' is quite short - consider adding more detail"))>>
             ELSE <<>>)
         \o (IF ~\E indicator \in trigger_indicators :
                     Contains(Lower(description.s), indicator)
             THEN <<ValidationIssue("warning", "description",
                       Msg("Description lacks trigger phrases - consider explaining when to use this skill"))>>
             ELSE <<>>)

example_markers ==
    { <<"#","#"," ","e","x","a","m","p","l","e">>,
      <<"#","#","#"," ","e","x","a","m","p","l","e">>,
      <<"e","x","a","m","p","l","e",":">>,
      <<"e","x","a","m","p","l","e","s">>,
      <<"c","o","r","e"," ","t","a","s","k","s">>,
      <<"w","o","r","k","f","l","o","w">> }

\* The word-count limits taken as inclusive
validate_body_inclusive(body) ==
    IF body = <<>> \/ Strip(body) = <<>>
    THEN <<ValidationIssue("error", "body", Msg("Skill body content is empty"))>>
    ELSE (IF WordCount(body) <= 100
          THEN <<ValidationIssue("warning", "body",
                    MsgN("Skill body is quite short ({} words) - consider adding more detail",
                         WordCount(body)))>>
          ELSE IF WordCount(body) >= 5000
          THEN <<ValidationIssue("warning", "body",
                    MsgN("Skill body is very long ({} words) - consider moving details to references/",
                         WordCount(body)))>>
          ELSE <<>>)
         \o (IF ~\E marker \in example_markers : Contains(Lower(body), marker)
             THEN <<ValidationIssue("warning", "body",
                       Msg("No examples or task/workflow guidance found - consider adding short examples or task steps"))>>
             ELSE <<>>)

validate_body(body) ==
    IF body = <<>> \/ Strip(body) = <<>>
    THEN <<ValidationIssue("error", "body", Msg("Skill body content is empty"))>>
    ELSE (IF WordCount(body) < 100
          THEN <<ValidationIssue("warning", "body",
                    MsgN("Skill body is quite short ({} words) - consider adding more detail",
                         WordCount(body)))>>
          ELSE IF WordCount(body) > 5000
          THEN <<ValidationIssue("warning", "body",
                    MsgN("Skill body is very long ({} words) - consider moving details to references/",
                         WordCount(body)))>>
          ELSE <<>>)
         \o (IF ~\E marker \in example_markers : Contains(Lower(body), marker)
             THEN <<ValidationIssue("warning", "body",
                       Msg("No examples or task/workflow guidance found - consider adding short examples or task steps"))>>
             ELSE <<>>)

(***************************************************************************)
(* Text: str.split("\n") and "\n".join.                                    *)
(***************************************************************************)
Split(s) ==
    LET nl == {i \in 1..Len(s) : s[i] = "\n"}
        n  == Cardinality(nl)
        pos == [k \in 0..(n + 1) |->
                   IF k = 0 THEN 0
                   ELSE IF k = n + 1 THEN Len(s) + 1
                   ELSE CHOOSE i \in nl : Cardinality({j \in nl : j < i}) = k - 1]
    IN  [k \in 1..(n + 1) |-> SubSeq(s, pos[k - 1] + 1, pos[k] - 1)]

RECURSIVE Join(_)
Join(lines) ==
    IF Len(lines) = 0 THEN <<>>
    ELSE IF Len(lines) = 1 THEN lines[1]
    ELSE lines[1] \o <<"\n">> \o Join(Tail(lines))

\* d[key] = value on a dict kept as a sequence of pairs
DictSet(d, key, value) ==
    IF \E i \in DOMAIN d : d[i].k = key
    THEN [i \in DOMAIN d |-> IF d[i].k = key THEN [k |-> key, v |-> value] ELSE d[i]]
    ELSE Append(d, [k |-> key, v |-> value])

\* d.get(key)
DictGet(d, key) ==
    IF \E i \in DOMAIN d : d[i].k = key
    THEN d[CHOOSE i \in DOMAIN d : d[i].k = key].v
    ELSE PyNone

(***************************************************************************)
(* The fallback parser.                                                    *)
(***************************************************************************)
_normalize_yaml_value(value) ==
    LET v == Strip(value)
    IN  IF \/ StartsWith(v, <<"\"">>) /\ EndsWith(v, <<"\"">>)
           \/ StartsWith(v, <<"'">>) /\ EndsWith(v, <<"'">>)
        THEN SubSeq(v, 2, Len(v) - 1)
        ELSE v

\* The first index >= i of s holding no whitespace (Len(s) + 1 if none): \s*
SkipSpace(s, i) ==
    IF \E j \in i..Len(s) : s[j] \notin Whitespace
    THEN CHOOSE j \in i..Len(s) :
            s[j] \notin Whitespace /\ \A m \in i..(j - 1) : s[m] \in Whitespace
    ELSE Len(s) + 1

\* re.match(r'^([a-zA-Z_][a-zA-Z0-9_]*)\s*:\s*(.*)$', line):
\* [ok, key (group 1), value (group 2)]
key_match(line) ==
    LET ident == LowerSet \cup UpperSet \cup DigitSet \cup {"_"}
        \* the end of the longest identifier the line starts with
        e == IF Len(line) >= 1 /\ line[1] \in ident \ DigitSet
             THEN CHOOSE k \in 1..Len(line) :
                     /\ \A m \in 1..k : line[m] \in ident
                     /\ (k = Len(line) \/ line[k + 1] \notin ident)
             ELSE 0
        c == SkipSpace(line, e + 1)
    IN  IF e >= 1 /\ c <= Len(line) /\ line[c] = ":"
        THEN [ok |-> TRUE, key |-> SubSeq(line, 1, e),
              value |-> SubSeq(line, SkipSpace(line, c + 1), Len(line))]
        ELSE [ok |-> FALSE, key |-> <<>>, value |-> <<>>]

\* The loop of _parse_simple_frontmatter from line i on, and what follows it.
RECURSIVE ParseSimpleFrom(_, _, _, _, _)
ParseSimpleFrom(lines, i, frontmatter, current_key, current_value_lines) ==
    LET flush == IF current_key # <<>>
                 THEN DictSet(frontmatter, PyStr(current_key),
                              PyStr(_normalize_yaml_value(Join(current_value_lines))))
                 ELSE frontmatter
    IN  IF i > Len(lines) THEN flush
        ELSE IF key_match(lines[i]).ok
        THEN ParseSimpleFrom(lines, i + 1, flush,
                             key_match(lines[i]).key, <<key_match(lines[i]).value>>)
        ELSE IF /\ current_key # <<>>
                /\ (StartsWith(lines[i], <<" ", " ">>) \/ StartsWith(lines[i], <<"\t">>))
        THEN ParseSimpleFrom(lines, i + 1, frontmatter, current_key,
                             Append(current_value_lines, Strip(lines[i])))
        ELSE ParseSimpleFrom(lines, i + 1, frontmatter, current_key, current_value_lines)

_parse_simple_frontmatter(frontmatter_lines) ==
    ParseSimpleFrom(frontmatter_lines, 1, <<>>, <<>>, <<>>)

(***************************************************************************)
(* The strict parser, yaml.safe_load, on the block mappings the model      *)
(* feeds it: lines `key: value` whose value is a plain, quoted or flow     *)
(* scalar, indented continuation lines, blank and comment lines.  Escapes  *)
(* other than \n in double-quoted scalars, anchors, tags and block scalars *)
(* are outside it.                                                         *)
(***************************************************************************)
PyBool(b) == [t |-> "bool", s |-> <<>>, n |-> IF b THEN 1 ELSE 0]

UpperChar(c) == IF c \in LowerSet
                THEN UPPERS[CHOOSE i \in DOMAIN LOWERS : LOWERS[i] = c]
                ELSE c

\* w, W and Word: the spellings YAML 1.1 resolves a keyword in
Spellings(w) ==
    { w, [i \in 1..Len(w) |-> UpperChar(w[i])],
      [i \in 1..Len(w) |-> IF i = 1 THEN UpperChar(w[i]) ELSE w[i]] }

YamlTrue == UNION {Spellings(w) : w \in {<<"y","e","s">>, <<"t","r","u","e">>, <<"o","n">>}}

YamlFalse == UNION {Spellings(w) : w \in {<<"n","o">>, <<"f","a","l","s","e">>, <<"o","f","f">>}}

YamlNull == Spellings(<<"n","u","l","l">>) \cup {<<"~">>, <<>>}

DigitValue(c) == (CHOOSE i \in DOMAIN DIGITS : DIGITS[i] = c) - 1

RECURSIVE NumberIn(_, _)
NumberIn(s, base) ==
    IF s = <<>> THEN 0
    ELSE NumberIn(SubSeq(s, 1, Len(s) - 1), base) * base + DigitValue(s[Len(s)])

\* The number of items of a flow collection's inside
FlowItems(inner) ==
    IF Strip(inner) = <<>> THEN 0
    ELSE 1 + Cardinality({i \in 1..Len(inner) : inner[i] = ","})

\* A double-quoted scalar's escapes resolved: \n is a line feed
RECURSIVE Unescape(_)
Unescape(s) ==
    IF Len(s) < 2 THEN s
    ELSE IF s[1] = "\\" /\ s[2] = "n" THEN <<"\n">> \o Unescape(SubSeq(s, 3, Len(s)))
    ELSE <<s[1]>> \o Unescape(Tail(s))

\* The value a scalar's text resolves to: [ok, plain, v]
YamlScalar(text) ==
    LET t == Strip(text)
        quoted(q) == /\ Len(t) >= 2 /\ t[1] = q /\ t[Len(t)] = q
                     /\ \A i \in 2..(Len(t) - 1) : t[i] # q
        bad == [ok |-> FALSE, plain |-> FALSE, v |-> PyNone]
        val(v, p) == [ok |-> TRUE, plain |-> p, v |-> v]
    IN  IF t \in YamlNull THEN val(PyNone, FALSE)
        ELSE IF t[1] \in {"\"", "'"}
        THEN IF quoted(t[1])
             THEN val(PyStr(IF t[1] = "\"" THEN Unescape(SubSeq(t, 2, Len(t) - 1))
                            ELSE SubSeq(t, 2, Len(t) - 1)), FALSE)
             ELSE bad
        ELSE IF t[1] = "["
        THEN IF t[Len(t)] = "]" THEN val(PyList(FlowItems(SubSeq(t, 2, Len(t) - 1))), FALSE)
             ELSE bad
        ELSE IF t[1] = "{"
        THEN IF t[Len(t)] = "}" THEN val(PyDict(FlowItems(SubSeq(t, 2, Len(t) - 1))), FALSE)
             ELSE bad
        ELSE IF t[1] \in {Backtick, "@", "%", "]", "}", ","} THEN bad
        ELSE IF Contains(t, <<":", " ">>) \/ t[Len(t)] = ":" THEN bad
        ELSE IF t \in YamlTrue THEN val(PyBool(TRUE), FALSE)
        ELSE IF t \in YamlFalse THEN val(PyBool(FALSE), FALSE)
        ELSE IF (\A i \in 1..Len(t) : t[i] \in DigitSet) /\ (t[1] # "0" \/ Len(t) = 1)
        THEN val(PyInt(NumberIn(t, 10)), FALSE)
        ELSE IF \A i \in 1..Len(t) : t[i] \in DigitSet \ {"8", "9"}
        THEN val(PyInt(NumberIn(t, 8)), FALSE)
        ELSE val(PyStr(t), TRUE)

\* The index of the ':' that ends a line's key: the first one followed by a
\* blank or the end of the line (0 if there is none)
KeyColon(line) ==
    LET ends == {i \in 1..Len(line) :
                    line[i] = ":" /\ (i = Len(line) \/ line[i + 1] \in {" ", "\t"})}
    IN  IF ends = {} THEN 0 ELSE CHOOSE i \in ends : \A j \in ends : i <= j

\* A plain scalar ends where a comment starts
Uncommented(text) ==
    LET starts == {i \in 1..(Len(text) - 1) : text[i] = " " /\ text[i + 1] = "#"}
    IN  IF starts = {} THEN text
        ELSE SubSeq(text, 1, (CHOOSE i \in starts : \A j \in starts : i <= j) - 1)

\* A block mapping's lines from line i on; acc is [ok, map, open], open telling
\* what an indented line may continue: "plain" (a plain scalar, which it folds
\* into), "empty" or "nested" (a nested mapping under a key with no value),
\* "no" (nothing).
RECURSIVE YamlMappingFrom(_, _, _)
YamlMappingFrom(lines, i, acc) ==
    LET line == lines[i]
        bad  == [ok |-> FALSE, map |-> <<>>, open |-> "no"]
        last == acc.map[Len(acc.map)]
        c    == KeyColon(line)
        key  == YamlScalar(SubSeq(line, 1, c - 1))
        raw  == Strip(SubSeq(line, c + 1, Len(line)))
        text == IF raw # <<>> /\ raw[1] \in {"\"", "'"} THEN raw ELSE Uncommented(raw)
        value == YamlScalar(text)
    IN  IF i > Len(lines) \/ ~acc.ok THEN acc
        ELSE IF Strip(line) = <<>> \/ Strip(line)[1] = "#"
        THEN YamlMappingFrom(lines, i + 1, acc)
        ELSE IF line[1] = "\t" THEN bad
        ELSE IF line[1] = " "
        THEN IF acc.open = "plain" /\ c = 0
             THEN YamlMappingFrom(lines, i + 1,
                    [acc EXCEPT !.map[Len(acc.map)].v =
                        PyStr(last.v.s \o <<" ">> \o Strip(line))])
             ELSE IF acc.open \in {"empty", "nested"} /\ c # 0
             THEN YamlMappingFrom(lines, i + 1,
                    [acc EXCEPT !.map[Len(acc.map)].v = PyDict(last.v.n + 1),
                                !.open = "nested"])
             ELSE bad
        ELSE IF c = 0 \/ ~key.ok \/ ~value.ok THEN bad
        ELSE YamlMappingFrom(lines, i + 1,
                [ok |-> TRUE,
                 map |-> DictSet(acc.map, key.v, value.v),
                 open |-> IF value.plain THEN "plain"
                          ELSE IF text = <<>> THEN "empty" ELSE "no"])

\* yaml.safe_load(frontmatter_text): [kind, map], kind "error" for a raised
\* YAMLError, "none" for None, "mapping" for a dict, "other" for any other value
yaml_safe_load(frontmatter_text) ==
    LET lines == Split(frontmatter_text)
        content == {i \in DOMAIN lines :
                       Strip(lines[i]) # <<>> /\ Strip(lines[i])[1] # "#"}
        first == lines[CHOOSE i \in content : \A j \in content : i <= j]
        parsed == YamlMappingFrom(lines, 1, [ok |-> TRUE, map |-> <<>>, open |-> "no"])
    IN  IF content = {} THEN [kind |-> "none", map |-> <<>>]
        ELSE IF \A i \in content : KeyColon(lines[i]) = 0
        THEN IF first[1] \in {Backtick, "@", "%"} \/ ~YamlScalar(first).ok
             THEN [kind |-> "error", map |-> <<>>]
             ELSE IF Cardinality(content) = 1 /\ YamlScalar(first).v = PyNone
             THEN [kind |-> "none", map |-> <<>>]
             ELSE [kind |-> "other", map |-> <<>>]
        ELSE IF parsed.ok THEN [kind |-> "mapping", map |-> parsed.map]
        ELSE [kind |-> "error", map |-> <<>>]

(***************************************************************************)
(* extract_frontmatter(content): [frontmatter, body, error].  error is ""  *)
(* where the source returns None for it; frontmatter is <<>> where the     *)
(* source returns None for it (then error is set).                         *)
(***************************************************************************)
\* The index of the line closing the block: the first after line 1 whose
\* strip() is "---" (the source's -1 is 0 here, its line i is line i + 1)
frontmatter_end(lines) ==
    LET closing == {i \in 2..Len(lines) : Strip(lines[i]) = <<"-", "-", "-">>}
    IN  IF closing = {} THEN 0 ELSE CHOOSE i \in closing : \A j \in closing : i <= j

\* A block that loads as None refused like any other non-mapping
extract_frontmatter_none_refused(content) ==
    LET lines  == Split(content)
        e      == frontmatter_end(lines)
        frontmatter_lines == SubSeq(lines, 2, e - 1)
        loaded == yaml_safe_load(Join(frontmatter_lines))
        body   == Join(SubSeq(lines, e + 1, Len(lines)))
        fail(error) == [frontmatter |-> <<>>, body |-> content, error |-> error]
    IN  IF ~StartsWith(Strip(content), <<"-", "-", "-">>)
        THEN fail("Missing YAML frontmatter (file must start with ---)")
        ELSE IF e = 0
        THEN fail("Invalid YAML frontmatter (missing closing ---)")
        ELSE IF yaml
        THEN IF loaded.kind = "error"
             THEN fail("Invalid YAML in frontmatter: {e}")
             ELSE IF loaded.kind \in {"other", "none"}
             THEN fail("Frontmatter must be a YAML mapping")
             ELSE [frontmatter |-> loaded.map, body |-> body, error |-> ""]
        ELSE [frontmatter |-> _parse_simple_frontmatter(frontmatter_lines),
              body |-> body, error |-> ""]

extract_frontmatter(content) ==
    LET lines  == Split(content)
        e      == frontmatter_end(lines)
        frontmatter_lines == SubSeq(lines, 2, e - 1)
        loaded == yaml_safe_load(Join(frontmatter_lines))
        body   == Join(SubSeq(lines, e + 1, Len(lines)))
        fail(error) == [frontmatter |-> <<>>, body |-> content, error |-> error]
    IN  IF ~StartsWith(Strip(content), <<"-", "-", "-">>)
        THEN fail("Missing YAML frontmatter (file must start with ---)")
        ELSE IF e = 0
        THEN fail("Invalid YAML frontmatter (missing closing ---)")
        ELSE IF yaml
        THEN IF loaded.kind = "error"
             THEN fail("Invalid YAML in frontmatter: {e}")
             ELSE IF loaded.kind = "other"
             THEN fail("Frontmatter must be a YAML mapping")
             ELSE [frontmatter |-> loaded.map, body |-> body, error |-> ""]
        ELSE [frontmatter |-> _parse_simple_frontmatter(frontmatter_lines),
              body |-> body, error |-> ""]

(***************************************************************************)
(* The result and the reference pass.                                      *)
(***************************************************************************)
ValidationResult(valid, skill_path, name, description, issues, warnings) ==
    [valid |-> valid, skill_path |-> skill_path, name |-> name,
     description |-> description, issues |-> issues, warnings |-> warnings]

\* len(description) of a value with no len(), list + str and dict[:100] raise
\* TypeError.
display_description_raises(description) ==
    /\ Truthy(description)
    /\ \/ description.t \in {"int", "bool"}
       \/ description.t \in {"list", "dict"} /\ description.n > 100

display_description_cut(description) ==
    IF Truthy(description) /\ description.t = "str" /\ Len(description.s) > 100
    THEN PyStr(SubSeq(description.s, 1, 100))
    ELSE description

\* description[:100] + "..." if description and len(description) > 100 else description
display_description(description) ==
    IF Truthy(description) /\ description.t = "str" /\ Len(description.s) > 100
    THEN PyStr(SubSeq(description.s, 1, 100) \o <<".", ".", ".">>)
    ELSE description

\* for issue in all_issues: the issues of one level, in order
OfLevel(all_issues, level) ==
    SelectSeq(all_issues, LAMBDA issue : issue.level = level)

\* re.findall(r'`([^`]+\.(md|py|sh|json))`', content) from index i on: group 1
\* of each match, left to right.  A match opens at a backquote and closes at
\* the next one, with an extension right before it and a character before
\* the extension; the scan resumes after a match, and one character on
\* where none starts.
RECURSIVE file_refs_from(_, _)
file_refs_from(content, i) ==
    LET ticks == {p \in i..Len(content) : content[p] = Backtick}
        p == CHOOSE x \in ticks : \A y \in ticks : x <= y
        after == {x \in ticks : x > p}
        q == CHOOSE x \in after : \A y \in after : x <= y
        inner == SubSeq(content, p + 1, q - 1)
        exts == {<<".","m","d">>, <<".","p","y">>, <<".","s","h">>, <<".","j","s","o","n">>}
    IN  IF ticks = {} \/ after = {} THEN <<>>
        ELSE IF \E ext \in exts : EndsWith(inner, ext) /\ Len(inner) > Len(ext)
        THEN <<inner>> \o file_refs_from(content, q + 1)
        ELSE file_refs_from(content, p + 1)

file_refs(content) == file_refs_from(content, 1)

(***************************************************************************)
(* The state.  fs is the filesystem: what SKILL.md is ("missing", "file",  *)
(* or "unreadable" for one whose open() or read() raises), its text, and   *)
(* the paths that exist relative to the skill directory.  entry is the     *)
(* function called, pc the place in it, log the stages gone through,       *)
(* exists_calls the os.path.exists() calls made on referenced files; the   *)
(* other variables are the locals of validate_skill_file and the result.   *)
(* previous is the outcome of the call before this one, if the caller has  *)
(* made one.  For package_skill: archive tells whether the .skill file has *)
(* been created, printed holds the error lines printed, returned is what   *)
(* package_skill returned ("" while it has not).                           *)
(***************************************************************************)
VARIABLES fs, entry, pc, log, exists_calls, content, frontmatter, body,
          fm_property_issues, name_issues, desc_issues, body_issues,
          warnings, result, previous, archive, printed, returned

vars == <<yaml, fs, entry, pc, log, exists_calls, content, frontmatter, body,
          fm_property_issues, name_issues, desc_issues, body_issues,
          warnings, result, previous, archive, printed, returned>>

dir_path == "skill"

\* os.path.join(dir_path, "SKILL.md")
skill_md_path == dir_path \o "/SKILL.md"

\* The path validate_skill_file is called with
file_path == skill_md_path

\* os.path.exists(os.path.join(dir_path, ref)) for a relative ref
ref_exists(ref) ==
    \/ ref \in fs.files
    \/ ref = <<"S","K","I","L","L",".","m","d">> /\ fs.skill_md # "missing"

name == DictGet(frontmatter, PyStr(<<"n","a","m","e">>))

description ==
    DictGet(frontmatter, PyStr(<<"d","e","s","c","r","i","p","t","i","o","n">>))

(***************************************************************************)
(* The documents and filesystems the validator is run on.                  *)
(***************************************************************************)
\* The words of the long body
BodyWords == 150

\* By how many characters the over-long name and description exceed the limit
Excess == 1

Delimiter == <<"-", "-", "-">>

NameKey == <<"n","a","m","e",":"," ">>

DescriptionKey == <<"d","e","s","c","r","i","p","t","i","o","n",":"," ">>

Quoted(s) == <<"\"">> \o s \o <<"\"">>

\* Names built from what the checks of the name rule look at: a cause the
\* format check diagnoses (or none), reserved words, markup, and the length.
FormatParts ==
    { <<"m","y","-","s","k","i","l","l">>, <<"M","y","S","k","i","l","l">>,
      <<"m","y"," ","s","k","i","l","l">>, <<"m","y","_","s","k","i","l","l">>,
      <<"m","y","s","k","i","l","l","!">>, <<"-","m","y","s","k","i","l","l">>,
      <<"M","y","_","S","k","i","l","l","!">> }

ReservedParts ==
    { <<>>, <<"-","c","l","a","u","d","e">>, <<"-","A","n","t","h","r","o","p","i","c">>,
      <<"-","c","l","a","u","d","e","-","a","n","t","h","r","o","p","i","c">> }

MarkupParts == { <<>>, <<"<","x",">">> }

BuiltNames ==
    { f \o r \o m \o s \o <<"0">> :
        f \in FormatParts, r \in ReservedParts, m \in MarkupParts,
        s \in {<<>>, Rep(<<"x">>, NAME_MAX_LENGTH + Excess)} }

\* Names at the edges of the format check: a trailing hyphen, two and three
\* causes at once, and a trailing hyphen before an escaped line feed
EdgeNames ==
    { <<"m","y","-","s","k","i","l","l","-">>,
      <<"m","y"," ","s","k","i","l","l","_","x","!">>,
      <<"m","y","_","s","k","i","l","l","!">>,
      <<"a","b","-","\\","n">> }

\* The name lines of the metadata block: none, or one line
NameLines ==
    { <<>>,
      <<NameKey \o <<"m","y","-","s","k","i","l","l">> >>,
      <<NameKey \o Quoted(<<"M","y","_","S","k","i","l","l","!">>) >>,
      <<NameKey \o <<"1","2","3">> >>,
      <<NameKey \o <<"[","a",","," ","b","]">> >>,
      <<NameKey \o Quoted(<<>>) >>,
      <<NameKey \o <<"c","l","a","u","d","e","-","<","x",">">> >> }

ScenarioDescription ==
    <<"U","s","e"," ","t","h","i","s"," ","w","h","e","n"," ","d","o","i","n","g"," ","X",".">>

GoodDescription ==
    <<"U","s","e"," ","t","h","i","s"," ","s","k","i","l","l"," ","w","h","e","n"," ",
      "c","o","n","v","e","r","t","i","n","g"," ","r","e","p","o","s","i","t","o","r","y"," ",
      "d","o","c","u","m","e","n","t","a","t","i","o","n"," ","i","n","t","o"," ","a"," ",
      "p","a","c","k","a","g","e","d"," ","s","k","i","l","l",".">>

DescriptionLines ==
    { <<>>,
      <<DescriptionKey \o ScenarioDescription>>,
      <<DescriptionKey \o GoodDescription>>,
      <<DescriptionKey \o <<"H","e","l","p","s"," ","w","i","t","h"," ">> \o Rep(<<"x">>, 100)>>,
      <<DescriptionKey \o Rep(<<"y">>, 100)>>,
      <<DescriptionKey \o <<"1","2","3">> >>,
      <<DescriptionKey \o <<"0">> >>,
      <<DescriptionKey \o <<"[","a",","," ","b","]">> >>,
      <<DescriptionKey \o Quoted(<<" "," "," ">>) >> }

\* A description over the length limit, with markup at its end and no
\* trigger phrase
LongDescription ==
    <<DescriptionKey \o Rep(<<"d">>, DESCRIPTION_MAX_LENGTH + Excess) \o <<"<","b",">">> >>

\* Descriptions at the edges of the checks: empty, just under and at the
\* short limit, at the length limit, over it with a trigger phrase and no
\* markup, short with markup
EdgeDescriptions ==
    { <<DescriptionKey \o Quoted(<<>>)>>,
      <<DescriptionKey \o Rep(<<"y">>, 49)>>,
      <<DescriptionKey \o Rep(<<"y">>, 50)>>,
      <<DescriptionKey \o Rep(<<"d">>, DESCRIPTION_MAX_LENGTH)>>,
      <<DescriptionKey \o <<"W","h","e","n"," ">> \o Rep(<<"d">>, DESCRIPTION_MAX_LENGTH)>>,
      <<DescriptionKey \o <<"<","b",">">> >> }

\* Further properties: none, an allowed one, two unexpected ones, a key that
\* is an int under the strict parser
ExtraLines ==
    { <<>>,
      << <<"l","i","c","e","n","s","e",":"," ","M","I","T">> >>,
      << <<"f","o","o",":"," ","b","a","r">>, <<"a","u","t","h","o","r",":"," ","m","e">> >>,
      << <<"1",":"," ","x">> >> }

RunPy == <<"s","c","r","i","p","t","s","/","r","u","n",".","p","y">>

ShortBody ==
    <<"S","e","e"," ",Backtick>> \o RunPy \o <<Backtick," ","f","o","r"," ","t","h","e"," ",
      "W","o","r","k","f","l","o","w",".">>

LongBody == Rep(<<"w","o","r","d"," ">>, BodyWords)

Bodies ==
    { <<>>,
      <<" ", " ", "\n">>,
      ShortBody,
      <<"R","u","n"," ",Backtick>> \o RunPy \o <<Backtick," ","t","h","e","n"," ",Backtick>>
        \o RunPy \o <<Backtick," ","a","n","d"," ",Backtick,"S","K","I","L","L",".","m","d",
        Backtick,".">> }

\* Bodies at the edges of the word-count checks: one word under and at the
\* short limit, past it with a marker, at and one word over the long limit
EdgeBodies ==
    { Rep(<<"w", " ">>, 99),
      Rep(<<"w", " ">>, 100),
      <<"E","x","a","m","p","l","e","s","\n">> \o Rep(<<"w", "\t">>, 100),
      Rep(<<"w", " ">>, 5000),
      Rep(<<"w", " ">>, 5001) }

Document(metadata_lines, text) ==
    Join(<<Delimiter>> \o metadata_lines \o <<Delimiter, text>>)

BaseName == <<NameKey \o <<"m","y","-","s","k","i","l","l">> >>

BaseDescription == <<DescriptionKey \o ScenarioDescription>>

\* Documents with a metadata block: every combination of the short parts,
\* the built names, and the long parts
WellFormed ==
    { Document(n \o d \o x, b) :
        n \in NameLines, d \in DescriptionLines, x \in ExtraLines, b \in Bodies }
    \cup { Document(<<NameKey \o Quoted(s)>> \o BaseDescription, ShortBody) :
             s \in BuiltNames \cup EdgeNames }
    \cup { Document(n \o d, b) :
             n \in {BaseName, <<NameKey \o Quoted(<<"M","y","_","S","k","i","l","l","!">>)>>},
             d \in {BaseDescription, LongDescription} \cup EdgeDescriptions,
             b \in {LongBody, ShortBody} }
    \cup { Document(BaseName \o BaseDescription, b) : b \in EdgeBodies }

\* Documents whose extraction fails or is unusual: no opening delimiter, no
\* closing delimiter, a block that does not parse, a block that is no
\* mapping, an empty block, a block that is null, a block of one blank line,
\* a blank line before the opening delimiter,
\* a character after the opening marker, blanks around the closing marker
Malformed ==
    UNION { { Join(<<<<"#"," ","T","i","t","l","e">>, b>>),
              Join(<<Delimiter>> \o BaseName \o BaseDescription \o <<b>>),
              Document(<<NameKey \o <<"[","u","n","c","l","o","s","e","d">> >>, b),
              Document(<<<<"j","u","s","t"," ","t","e","x","t">> >>, b),
              Document(<<>>, b),
              Document(<< <<"n","u","l","l">> >>, b),
              Document(<< <<"~">> >>, b),
              Document(<< <<" ">> >>, b),
              Join(<< <<>>, Delimiter>> \o BaseName \o BaseDescription \o <<Delimiter, b>>),
              Join(<<Delimiter \o <<"x">> >> \o BaseName \o BaseDescription
                     \o <<Delimiter, b>>),
              Join(<<Delimiter>> \o BaseName \o BaseDescription
                     \o << <<" ">> \o Delimiter \o <<" ">>, b>>) }
            : b \in Bodies }

Documents == WellFormed \cup Malformed

\* The referenced file exists or not where the document refers to it
Filesystems ==
    { [folder |-> "missing", skill_md |-> "missing", content |-> <<>>, files |-> {}],
      [folder |-> "file", skill_md |-> "missing", content |-> <<>>, files |-> {}],
      [folder |-> "dir", skill_md |-> "missing", content |-> <<>>, files |-> {}],
      [folder |-> "dir", skill_md |-> "unreadable", content |-> <<>>, files |-> {}] }
    \cup { [folder |-> "dir", skill_md |-> "file", content |-> d, files |-> f] :
             d \in Documents, f \in {{}, {RunPy}} }

Inputs ==
    { [yaml |-> y, entry |-> e, fs |-> f] :
        y \in BOOLEAN, e \in {"file", "dir"}, f \in Filesystems }

\* The runs of package_skill
PackageInputs ==
    { [yaml |-> y, entry |-> "package", fs |-> f] : y \in BOOLEAN, f \in Filesystems }

Start(inputs) ==
    /\ \E input \in inputs :
          /\ input.fs.files # {} =>
                input.entry # "file" /\ Contains(input.fs.content, RunPy)
          /\ yaml = input.yaml
          /\ entry = input.entry
          /\ fs = input.fs
    /\ pc = IF entry = "package" THEN "package" ELSE "start"
    /\ log = <<"Start">>
    /\ exists_calls = 0
    /\ content = <<>>
    /\ frontmatter = <<>>
    /\ body = <<>>
    /\ fm_property_issues = <<>>
    /\ name_issues = <<>>
    /\ desc_issues = <<>>
    /\ body_issues = <<>>
    /\ warnings = <<>>
    /\ result = <<>>
    /\ previous = <<>>
    /\ archive = FALSE
    /\ printed = <<>>
    /\ returned = ""

Init == Start(Inputs)

\* What the caller of the validator holds
caller == <<previous, archive, printed, returned>>

locals == <<content, frontmatter, body, fm_property_issues, name_issues,
            desc_issues, body_issues, warnings>>

\* Where control goes when validate_skill_file returns
return_to == IF entry = "file" THEN "done" ELSE "references"

\* The problem filed under warnings instead of issues
Failure_as_warning(path, field, message) ==
    <<ValidationResult(FALSE, path, PyNone, PyNone,
                       <<>>, <<ValidationIssue("error", field, message)>>)>>

\* The result of a structural failure
Failure(path, field, message) ==
    <<ValidationResult(FALSE, path, PyNone, PyNone,
                       <<ValidationIssue("error", field, message)>>, <<>>)>>

\* Where control goes when validate_skill_directory returns
returned_to == IF entry = "package" THEN "validated" ELSE "done"

(***************************************************************************)
(* validate_skill_directory, up to its call of validate_skill_file.        *)
(***************************************************************************)
Locate ==
    /\ pc = "start"
    /\ entry # "file"
    /\ IF fs.skill_md = "missing"
       THEN /\ result' = Failure(dir_path, "structure",
                                 Msg("No SKILL.md found in " \o dir_path))
            /\ log' = log \o <<"NotFound", "Done">>
            /\ pc' = returned_to
       ELSE /\ log' = Append(log, "Located")
            /\ pc' = "file"
            /\ UNCHANGED result
    /\ UNCHANGED <<caller, yaml, fs, entry, exists_calls, locals>>

(***************************************************************************)
(* validate_skill_file.                                                    *)
(***************************************************************************)
\* Check file exists
FileExists ==
    /\ pc = "file" \/ (pc = "start" /\ entry = "file")
    /\ IF fs.skill_md = "missing"
       THEN /\ result' = Failure(file_path, "file", Msg("File not found: " \o file_path))
            /\ log' = log \o <<"NotFound">> \o (IF entry = "file" THEN <<"Done">> ELSE <<>>)
            /\ pc' = return_to
       ELSE /\ log' = IF entry = "file" THEN Append(log, "Located") ELSE log
            /\ pc' = "read"
            /\ UNCHANGED result
    /\ UNCHANGED <<caller, yaml, fs, entry, exists_calls, locals>>

\* Read file
FileRead ==
    /\ pc = "read"
    /\ IF fs.skill_md = "unreadable"
       THEN /\ result' = Failure(file_path, "file", Msg("Failed to read file: {e}"))
            /\ log' = log \o <<"ReadFailed">> \o (IF entry = "file" THEN <<"Done">> ELSE <<>>)
            /\ pc' = return_to
            /\ UNCHANGED content
       ELSE /\ content' = fs.content
            /\ pc' = "extract"
            /\ UNCHANGED <<result, log>>
    /\ UNCHANGED <<caller, yaml, fs, entry, exists_calls, frontmatter, body, fm_property_issues,
                   name_issues, desc_issues, body_issues, warnings>>

\* The warning issued whether or not a parser is there
fallback_advisory_always ==
    <<ValidationIssue("warning", "frontmatter",
        Msg("PyYAML not installed; using simplified parser. Install PyYAML for full YAML support."))>>

\* if yaml is None: warnings.append(...)
fallback_advisory ==
    IF ~yaml
    THEN <<ValidationIssue("warning", "frontmatter",
             Msg("PyYAML not installed; using simplified parser. Install PyYAML for full YAML support."))>>
    ELSE <<>>

\* Parse frontmatter
Extract ==
    /\ pc = "extract"
    /\ LET extracted == extract_frontmatter(content)
       IN  IF extracted.error # ""
           THEN /\ result' = Failure(file_path, "frontmatter", Msg(extracted.error))
                /\ log' = log \o <<"ExtractFailed">>
                             \o (IF entry = "file" THEN <<"Done">> ELSE <<>>)
                /\ pc' = return_to
                /\ UNCHANGED <<frontmatter, body, warnings>>
           ELSE /\ frontmatter' = extracted.frontmatter
                /\ body' = extracted.body
                /\ warnings' = warnings \o fallback_advisory
                /\ log' = Append(log, "Extracted")
                /\ pc' = "properties"
                /\ UNCHANGED result
    /\ UNCHANGED <<caller, yaml, fs, entry, exists_calls, content, fm_property_issues,
                   name_issues, desc_issues, body_issues>>

\* Validate frontmatter properties
RuleProperties ==
    /\ pc = "properties"
    /\ IF validate_frontmatter_properties_raises(frontmatter)
       THEN /\ pc' = "raised"
            /\ log' = Append(log, "Raised")
            /\ UNCHANGED fm_property_issues
       ELSE /\ fm_property_issues' = validate_frontmatter_properties(frontmatter)
            /\ pc' = "name"
            /\ UNCHANGED log
    /\ UNCHANGED <<caller, yaml, fs, entry, exists_calls, content, frontmatter, body,
                   name_issues, desc_issues, body_issues, warnings, result>>

\* Validate name
RuleName ==
    /\ pc = "name"
    /\ name_issues' = validate_name(name)
    /\ pc' = "description"
    /\ UNCHANGED <<caller, yaml, fs, entry, log, exists_calls, content, frontmatter, body,
                   fm_property_issues, desc_issues, body_issues, warnings, result>>

\* Validate description
RuleDescription ==
    /\ pc = "description"
    /\ desc_issues' = validate_description(description)
    /\ pc' = "body"
    /\ UNCHANGED <<caller, yaml, fs, entry, log, exists_calls, content, frontmatter, body,
                   fm_property_issues, name_issues, body_issues, warnings, result>>

\* Validate body
RuleBody ==
    /\ pc = "body"
    /\ body_issues' = validate_body(body)
    /\ pc' = "assemble"
    /\ UNCHANGED <<caller, yaml, fs, entry, log, exists_calls, content, frontmatter, body,
                   fm_property_issues, name_issues, desc_issues, warnings, result>>

\* The issues up to the first rule that reported an error
all_issues_until_error ==
    IF OfLevel(fm_property_issues, "error") # <<>> THEN fm_property_issues
    ELSE IF OfLevel(name_issues, "error") # <<>> THEN fm_property_issues \o name_issues
    ELSE IF OfLevel(desc_issues, "error") # <<>>
    THEN fm_property_issues \o name_issues \o desc_issues
    ELSE fm_property_issues \o name_issues \o desc_issues \o body_issues

all_issues == fm_property_issues \o name_issues \o desc_issues \o body_issues

\* valid computed before the issues are collected
valid_before(issues) == TRUE

\* valid=len(issues) == 0
valid(issues) == Len(issues) = 0

\* Separate errors and warnings, and return the result
Assemble ==
    /\ pc = "assemble"
    /\ IF display_description_raises(description)
       THEN /\ pc' = "raised"
            /\ log' = log \o <<"RulesApplied", "Raised">>
            /\ UNCHANGED <<warnings, result>>
       ELSE /\ warnings' = warnings \o OfLevel(all_issues, "warning")
            /\ result' = <<ValidationResult(valid(OfLevel(all_issues, "error")),
                                            file_path, name,
                                            display_description(description),
                                            OfLevel(all_issues, "error"),
                                            warnings')>>
            /\ log' = log \o <<"RulesApplied">>
                         \o (IF entry = "file" THEN <<"Done">> ELSE <<>>)
            /\ pc' = return_to
    /\ UNCHANGED <<caller, yaml, fs, entry, exists_calls, content, frontmatter, body,
                   fm_property_issues, name_issues, desc_issues, body_issues>>

(***************************************************************************)
(* validate_skill_directory, after validate_skill_file has returned.  The  *)
(* three os.path.isdir() results are computed and never used.              *)
(***************************************************************************)
\* A warning for every reference, with no look at the filesystem
additional_warnings_unchecked ==
    IF fs.skill_md = "unreadable" THEN <<>>
    ELSE LET refs == file_refs(fs.content)
         IN  [i \in 1..Len(refs) |->
                 ValidationIssue("warning", "references",
                     MsgArgs("Referenced file not found: {}", <<refs[i]>>))]

additional_warnings ==
    IF fs.skill_md = "unreadable" THEN <<>>
    ELSE LET refs == file_refs(fs.content)
             missing == SelectSeq(refs, LAMBDA ref : ~ref_exists(ref))
         IN  [i \in 1..Len(missing) |->
                 ValidationIssue("warning", "references",
                     MsgArgs("Referenced file not found: {}", <<missing[i]>>))]

ReferenceCheck ==
    /\ pc = "references"
    /\ exists_calls' = exists_calls
          + (IF fs.skill_md = "unreadable" THEN 0 ELSE Len(file_refs(fs.content)))
    /\ result' = [result EXCEPT ![1].warnings = @ \o additional_warnings]
    /\ log' = log \o <<"ReferenceChecked", "Done">>
    /\ pc' = returned_to
    /\ UNCHANGED <<caller, yaml, fs, entry, locals>>

(***************************************************************************)
(* The caller runs the validator once more on the unchanged document and   *)
(* filesystem: it keeps the outcome of the first call, and the function    *)
(* starts with its own new locals.                                         *)
(***************************************************************************)
\* A list that outlives the call, as a default argument's list does
warnings_kept == warnings

\* warnings = []
warnings_new == <<>>

Again ==
    /\ pc \in {"done", "raised"}
    /\ previous = <<>>
    /\ previous' = <<[outcome |-> pc, result |-> result]>>
    /\ pc' = "start"
    /\ log' = <<"Start">>
    /\ exists_calls' = 0
    /\ content' = <<>>
    /\ frontmatter' = <<>>
    /\ body' = <<>>
    /\ fm_property_issues' = <<>>
    /\ name_issues' = <<>>
    /\ desc_issues' = <<>>
    /\ body_issues' = <<>>
    /\ warnings' = warnings_new
    /\ result' = <<>>
    /\ UNCHANGED <<yaml, fs, entry, archive, printed, returned>>

(***************************************************************************)
(* package_skill.                                                          *)
(***************************************************************************)
\* Validate skill folder exists, is a directory and holds SKILL.md
PackageLocate ==
    /\ pc = "package"
    /\ IF fs.folder = "missing"
       THEN /\ printed' = <<Msg("Error: Skill folder not found: {skill_path}")>>
            /\ returned' = "None"
            /\ pc' = "packaged"
       ELSE IF fs.folder # "dir"
       THEN /\ printed' = <<Msg("Error: Path is not a directory: {skill_path}")>>
            /\ returned' = "None"
            /\ pc' = "packaged"
       ELSE IF fs.skill_md = "missing"
       THEN /\ printed' = <<Msg("Error: SKILL.md not found in {skill_path}")>>
            /\ returned' = "None"
            /\ pc' = "packaged"
       ELSE /\ pc' = "start"
            /\ UNCHANGED <<printed, returned>>
    /\ UNCHANGED <<yaml, fs, entry, log, exists_calls, locals, result, previous, archive>>

\* A result that is tested itself, where its valid field is meant
validation_passed_any == TRUE

\* not (not result.valid)
validation_passed == result[1].valid

\* Run validation before packaging: what follows the validator's return
PackageValidated ==
    /\ pc = "validated"
    /\ IF ~validation_passed
       THEN /\ printed' = [i \in DOMAIN result[1].issues |-> result[1].issues[i].message]
            /\ returned' = "None"
            /\ pc' = "packaged"
       ELSE /\ pc' = "archive"
            /\ UNCHANGED <<printed, returned>>
    /\ UNCHANGED <<yaml, fs, entry, log, exists_calls, locals, result, previous, archive>>

\* Create the .skill file.  zipfile.ZipFile() creates it; where that or a
\* write raises, the file may or may not be there and None is returned.
PackageArchive ==
    /\ pc = "archive"
    /\ \E outcome \in {"written", "not created", "created and failed"} :
          /\ archive' = (outcome # "not created")
          /\ returned' = IF outcome = "written" THEN "skill_filename" ELSE "None"
          /\ printed' = IF outcome = "written" THEN printed
                        ELSE <<Msg("Error creating .skill file: {e}")>>
    /\ log' = Append(log, "ArchiveOpened")
    /\ pc' = "packaged"
    /\ UNCHANGED <<yaml, fs, entry, exists_calls, locals, result, previous>>

Next ==
    \/ Locate
    \/ FileExists
    \/ FileRead
    \/ Extract
    \/ RuleProperties
    \/ RuleName
    \/ RuleDescription
    \/ RuleBody
    \/ Assemble
    \/ ReferenceCheck

Spec == Init /\ [][Next]_vars

\* The validator called twice in a row
NextTwice ==
    \/ Again
    \/ Next

SpecTwice == Init /\ [][NextTwice]_vars

\* package_skill, with the validator it calls
InitPackage == Start(PackageInputs)

NextPackage ==
    \/ PackageLocate
    \/ PackageValidated
    \/ PackageArchive
    \/ Next

SpecPackage == InitPackage /\ [][NextPackage]_vars

(***************************************************************************)
(* Properties.                                                             *)
(***************************************************************************)
Stages == {log[i] : i \in DOMAIN log}

\* A result has been built
Returned == Len(result) = 1

\* validate_skill_file has returned the result of the rules, and the
\* reference pass has not touched it
FileReturned == Returned /\ "RulesApplied" \in Stages /\ "ReferenceChecked" \notin Stages

StructuralFailure == Stages \cap {"NotFound", "ReadFailed", "ExtractFailed"} # {}

Texts(issues) == [i \in DOMAIN issues |-> issues[i].message.text]

\* C1: in every result built, on every return path (file missing, unreadable,
\* extraction failure, rules applied, reference check done), valid is true
\* if and only if the errors list (field issues) is empty.
C1_ValidIffNoErrors ==
    Returned => (result[1].valid <=> result[1].issues = <<>>)

C1_Witness ==
    /\ pc = "done"
    /\ {"RulesApplied", "ReferenceChecked"} \subseteq Stages
    /\ result[1].valid
    /\ result[1].issues = <<>>
    /\ result[1].warnings # <<>>

\* C2: for every document and filesystem state no exception escapes and a
\* result is returned; a description that is no string yields an Error issue
\* on the description in the result.
C2_NoExceptionEscapes ==
    /\ pc # "raised"
    /\ pc = "done" => Returned
    /\ (pc = "done" /\ "Extracted" \in Stages /\ description.t \notin {"str", "NoneType"})
          => \E i \in DOMAIN result[1].issues :
                /\ result[1].issues[i].level = "error"
                /\ result[1].issues[i].field = "description"

\* C3: every structural failure (no SKILL.md in the directory, file missing
\* or unreadable, no opening delimiter, unterminated block, parse failure,
\* metadata that is no mapping) yields a result with valid false, exactly one
\* error, name and description None, and no issue of any of the four rules.
C3_StructuralFailureResult ==
    (Returned /\ StructuralFailure) =>
        /\ ~result[1].valid
        /\ Len(result[1].issues) = 1
        /\ result[1].issues[1].level = "error"
        /\ result[1].issues[1].field \in {"structure", "file", "frontmatter"}
        /\ result[1].name = PyNone
        /\ result[1].description = PyNone
        /\ fm_property_issues \o name_issues \o desc_issues \o body_issues = <<>>
        /\ \A i \in DOMAIN result[1].warnings :
              result[1].warnings[i].field = "references"

C3_Witness ==
    /\ pc = "done"
    /\ "ExtractFailed" \in Stages
    /\ Len(result[1].issues) = 1
    /\ result[1].issues[1].message.text = "Invalid YAML frontmatter (missing closing ---)"

\* What the four rules report on the extracted metadata and body, in order
RuleOutputs ==
    validate_frontmatter_properties(frontmatter) \o validate_name(name)
        \o validate_description(description) \o validate_body(body)

AdvisoryText ==
    "PyYAML not installed; using simplified parser. Install PyYAML for full YAML support."

ScenarioDocument == Document(BaseName \o BaseDescription, LongBody)

ScenarioDone == pc = "done" /\ fs.skill_md = "file" /\ fs.content = ScenarioDocument

\* C5 as stated: the document with name 'my-skill', description
\* 'Use this when doing X.' and the body 'word ' repeated yields valid true,
\* zero errors and zero warnings.
C5_ScenarioIsClean ==
    ScenarioDone =>
        /\ result[1].valid
        /\ result[1].issues = <<>>
        /\ result[1].warnings = <<>>

\* C5 amended: that document yields valid true and zero errors, and the
\* warnings are the advisory of the simplified parser when no strict parser
\* is available, then the description's too-short warning (22 characters,
\* under 50) and the body's no-examples warning, and no other.
C5_ScenarioHasTwoWarnings ==
    ScenarioDone =>
        /\ result[1].valid
        /\ result[1].issues = <<>>
        /\ Texts(result[1].warnings) =
              (IF yaml THEN <<>> ELSE <<AdvisoryText>>)
              \o <<"Field 'description' is quite short - consider adding more detail",
                   "No examples or task/workflow guidance found - consider adding short examples or task steps">>
        /\ \A i \in DOMAIN result[1].warnings : result[1].warnings[i].level = "warning"

C5_Witness ==
    /\ ScenarioDone
    /\ yaml
    /\ entry = "dir"
    /\ result[1].valid
    /\ Len(result[1].warnings) = 2

\* The stage is the last one, or only Done follows it
Terminal(stage) ==
    \A i \in DOMAIN log :
        log[i] = stage => \/ i = Len(log)
                          \/ i + 1 = Len(log) /\ log[i + 1] = "Done"

\* C6: NotFound and ExtractFailed are terminal: in validate_skill_directory,
\* once extraction has failed the call returns at once, so no rule runs, no
\* existence check of a referenced file is performed and nothing is appended
\* to the failure result.
C6_FailureIsTerminal ==
    /\ Terminal("NotFound")
    /\ "ExtractFailed" \in Stages =>
          /\ "RulesApplied" \notin Stages
          /\ fm_property_issues \o name_issues \o desc_issues \o body_issues = <<>>
          /\ exists_calls = 0
          /\ Returned => result[1].warnings = <<>>

KeysOf(mapping) == {mapping[i].k : i \in DOMAIN mapping}

\* C7: for every metadata mapping the allowed-properties rule emits no issue
\* when every key is one of name, description, license, allowed-tools,
\* metadata, and otherwise exactly one Error whose message names every
\* unexpected key and the whole allow-list.
C7_OneErrorNamesUnexpectedKeys ==
    ("Extracted" \in Stages /\ pc # "properties") =>
        LET unexpected == KeysOf(frontmatter)
                            \ {PyStr(a) : a \in ALLOWED_FRONTMATTER_PROPERTIES}
        IN  IF unexpected = {} THEN fm_property_issues = <<>>
            ELSE /\ Len(fm_property_issues) = 1
                 /\ fm_property_issues[1].level = "error"
                 /\ \A k \in unexpected :
                       \E j \in DOMAIN fm_property_issues[1].message.args[1] :
                           PyStr(fm_property_issues[1].message.args[1][j]) = k
                 /\ \A a \in ALLOWED_FRONTMATTER_PROPERTIES :
                       \E j \in DOMAIN fm_property_issues[1].message.args[2] :
                           fm_property_issues[1].message.args[2][j] = a

\* validate_name has been applied to the name of the metadata
NameRuleRan ==
    pc \in {"description", "body", "assemble"} \/ "RulesApplied" \in Stages

NameErrors(text, args) ==
    Cardinality({i \in DOMAIN name_issues :
        /\ name_issues[i].level = "error"
        /\ name_issues[i].message.text = text
        /\ name_issues[i].message.args = args})

\* C8: for every non-empty string name, whether or not it matches the name
\* pattern and whatever the format check reported, a name of more than 64
\* characters gets the too-long Error, each reserved word it contains,
\* letter case ignored, gets its own Error, and a name containing '<' or
\* '>' gets the markup Error.
C8_NameChecksIndependent ==
    (NameRuleRan /\ name.t = "str" /\ name.s # <<>>) =>
        /\ Len(name.s) > 64 =>
              NameErrors("Field 'name' exceeds 64 characters (got {})", <<>>) = 1
        /\ \A word \in {<<"a","n","t","h","r","o","p","i","c">>, <<"c","l","a","u","d","e">>} :
              Contains(Lower(name.s), word) =>
                  NameErrors("Field 'name' cannot contain reserved word '{}'", <<word>>) = 1
        /\ (\E i \in DOMAIN name.s : name.s[i] \in {"<", ">"}) =>
              NameErrors("Field 'name' cannot contain XML tags", <<>>) = 1

\* An over-long name outside the pattern, with uppercase letters, both
\* reserved words and markup
C8_Witness ==
    /\ NameRuleRan
    /\ name.t = "str"
    /\ ~NAME_PATTERN(name.s)
    /\ Len(name.s) > 64
    /\ Len(name_issues) = 5

\* The references of SKILL.md that do not exist in the directory, in order
MissingRefs ==
    IF fs.skill_md = "unreadable" THEN <<>>
    ELSE SelectSeq(file_refs(fs.content), LAMBDA ref : ~ref_exists(ref))

\* C9: the reference pass only appends Warnings of field 'references' to the
\* result validate_skill_file built, one per backtick-quoted path ending in
\* .md, .py, .sh or .json that does not exist relative to the directory; it
\* adds no Error and leaves valid, errors, name and description as they were.
C9_ReferencePassOnlyAppendsWarnings ==
    [][pc = "references" =>
          /\ Len(result') = 1
          /\ result'[1].valid = result[1].valid
          /\ result'[1].issues = result[1].issues
          /\ result'[1].name = result[1].name
          /\ result'[1].description = result[1].description
          /\ result'[1].skill_path = result[1].skill_path
          /\ Len(result'[1].warnings) = Len(result[1].warnings) + Len(MissingRefs)
          /\ SubSeq(result'[1].warnings, 1, Len(result[1].warnings)) = result[1].warnings
          /\ \A i \in DOMAIN MissingRefs :
                LET added == result'[1].warnings[Len(result[1].warnings) + i]
                IN  /\ added.level = "warning"
                    /\ added.field = "references"
                    /\ added.message.text = "Referenced file not found: {}"
                    /\ added.message.args = <<MissingRefs[i]>>]_vars

\* A valid result with a warning for a reference that does not exist
C9_Witness ==
    /\ pc = "done"
    /\ "ReferenceChecked" \in Stages
    /\ result[1].valid
    /\ \E i \in DOMAIN result[1].warnings :
          /\ result[1].warnings[i].field = "references"
          /\ result[1].warnings[i].message.args = <<RunPy>>

HasIssue(issues, field, text) ==
    \E i \in DOMAIN issues :
        /\ issues[i].level = "error"
        /\ issues[i].field = field
        /\ issues[i].message.text = text

\* C10: the description in the result is the validated description when it
\* has at most 100 characters, and otherwise its first 100 characters
\* followed by '...'; the length and markup checks look at the whole value.
C10_DescriptionShownTruncated ==
    (Returned /\ "RulesApplied" \in Stages /\ description.t = "str") =>
        LET d == description.s
        IN  /\ Len(d) <= 100 => result[1].description = description
            /\ Len(d) > 100 =>
                  /\ result[1].description.t = "str"
                  /\ Len(result[1].description.s) = 103
                  /\ \A i \in 1..100 : result[1].description.s[i] = d[i]
                  /\ \A i \in 101..103 : result[1].description.s[i] = "."
            /\ (\E i \in DOMAIN d : d[i] \notin Whitespace) =>
                  /\ Len(d) > 1024 <=>
                        HasIssue(result[1].issues, "description",
                                 "Field 'description' exceeds 1024 characters (got {})")
                  /\ (\E i \in DOMAIN d : d[i] \in {"<", ">"}) <=>
                        HasIssue(result[1].issues, "description",
                                 "Field 'description' cannot contain XML tags")

\* A description over the limit whose markup lies beyond the first 100
\* characters
C10_Witness ==
    /\ Returned
    /\ "RulesApplied" \in Stages
    /\ description.t = "str"
    /\ Len(description.s) > 1024
    /\ \A i \in 1..100 : description.s[i] \notin {"<", ">"}
    /\ Len(result[1].description.s) = 103
    /\ Len(OfLevel(desc_issues, "error")) = 2

\* C11: running the validator twice on the same unchanged document and
\* filesystem gives the same outcome both times: the same valid, name,
\* description, and the same errors and warnings in the same order; nothing
\* of the first call reaches the second.
C11_SecondCallSame ==
    (previous # <<>> /\ pc \in {"done", "raised"}) =>
        /\ previous[1].outcome = pc
        /\ previous[1].result = result

\* A second result with an error, a warning of the rules and a warning of
\* the reference pass
C11_Witness ==
    /\ previous # <<>>
    /\ pc = "done"
    /\ "ReferenceChecked" \in Stages
    /\ result[1].issues # <<>>
    /\ Len(result[1].warnings) >= 2
    /\ result[1].warnings[Len(result[1].warnings)].field = "references"

\* The lines between the opening line and the closing delimiter line
BlockLines ==
    LET lines == Split(content)
    IN  SubSeq(lines, 2, frontmatter_end(lines) - 1)

\* A line `key: value` with a scalar value: no sequence, no nested mapping
ScalarLine(line) ==
    \E c \in 2..(Len(line) - 2) :
        /\ line[1] \in LowerSet \cup UpperSet
        /\ \A i \in 1..(c - 1) : line[i] \in LowerSet \cup UpperSet \cup DigitSet \cup {"_", "-"}
        /\ line[c] = ":"
        /\ line[c + 1] = " "
        /\ line[c + 2] \notin {" ", "[", "{", "-", "|", ">", "&", "*", "!", "#"}

\* C12: for every document whose metadata block holds only scalar
\* `key: value` lines, extraction gives the same mapping and the same body
\* with the strict parser as with the fallback parser.
C12_ParsersAgreeOnScalars ==
    (pc = "properties" /\ BlockLines # <<>>
        /\ \A i \in DOMAIN BlockLines : ScalarLine(BlockLines[i])) =>
        /\ yaml_safe_load(Join(BlockLines)).kind = "mapping"
        /\ yaml_safe_load(Join(BlockLines)).map = _parse_simple_frontmatter(BlockLines)
        /\ frontmatter = _parse_simple_frontmatter(BlockLines)

\* The warnings of a result that are neither of field 'frontmatter' nor of
\* the reference pass
RuleWarnings(issues) ==
    SelectSeq(issues, LAMBDA issue : issue.field \notin {"frontmatter", "references"})

\* C13: when no strict parser is available and extraction succeeds, a result
\* is returned that holds exactly one advisory Warning of field
\* 'frontmatter' about the fallback parser, which never makes valid false;
\* apart from it the issues are those the rules give for the same mapping
\* and body under the strict parser, where no such Warning is issued.
C13_OneAdvisoryOnly ==
    ("Extracted" \in Stages /\ pc \in {"references", "done", "raised"}) =>
        IF yaml
        THEN Returned =>
                \A i \in DOMAIN result[1].warnings : result[1].warnings[i].field # "frontmatter"
        ELSE /\ Returned
             /\ {i \in DOMAIN result[1].warnings : result[1].warnings[i].field = "frontmatter"} = {1}
             /\ result[1].warnings[1].level = "warning"
             /\ result[1].warnings[1].message.text = AdvisoryText
             /\ result[1].valid <=> OfLevel(RuleOutputs, "error") = <<>>
             /\ result[1].issues = OfLevel(RuleOutputs, "error")
             /\ RuleWarnings(result[1].warnings) = OfLevel(RuleOutputs, "warning")

C13_Witness ==
    /\ ~yaml
    /\ pc = "done"
    /\ "Extracted" \in Stages
    /\ result[1].valid
    /\ result[1].warnings[1].message.text = AdvisoryText
    /\ Len(result[1].warnings) >= 2

\* C14: package_skill creates or writes the .skill archive only after the
\* validator has been called and has returned valid true; when valid is
\* false it returns None after printing the message of every error; and
\* warnings alone never keep it from going on to create the archive.
C14_ArchiveOnlyAfterValid ==
    /\ (archive \/ "ArchiveOpened" \in Stages) =>
          /\ Returned
          /\ "Done" \in Stages
          /\ result[1].valid
    /\ (pc = "packaged" /\ Returned /\ ~result[1].valid) =>
          /\ returned = "None"
          /\ ~archive
          /\ Len(printed) = Len(result[1].issues)
          /\ \A i \in DOMAIN printed : printed[i] = result[1].issues[i].message
    /\ (pc = "packaged" /\ Returned /\ result[1].valid) => "ArchiveOpened" \in Stages

\* The archive written for a valid skill that has warnings
C14_Witness ==
    /\ pc = "packaged"
    /\ archive
    /\ returned = "skill_filename"
    /\ result[1].valid
    /\ Len(result[1].warnings) >= 2

\* C15: a document is accepted only if its first line is exactly '---' and
\* a later line is exactly '---', with no surrounding whitespace; the
\* metadata text is the lines strictly between the two, and what follows
\* the closing line is the body.
C15_ExactDelimiterLines ==
    pc = "properties" =>
        LET lines == Split(content)
            closing == {i \in 2..Len(lines) : lines[i] = Delimiter}
            first == CHOOSE i \in closing : \A j \in closing : i <= j
        IN  /\ lines[1] = Delimiter
            /\ closing # {}
            /\ BlockLines = SubSeq(lines, 2, first - 1)
            /\ body = Join(SubSeq(lines, first + 1, Len(lines)))

FormatTexts ==
    { "Field 'name' must be lowercase",
      "Field 'name' cannot contain spaces (use hyphens)",
      "Field 'name' uses underscores (prefer hyphens for consistency)",
      "Field 'name' must contain only lowercase letters, numbers, and hyphens" }

\* C16: for every non-empty string name that fails the name pattern the
\* format check emits at most one issue, for the first cause that applies:
\* an uppercase letter (Error), a space (Error), an underscore (Warning), a
\* character outside [a-z0-9-] (Error); a name failing only through a
\* leading or trailing hyphen gets none.
C16_FirstFormatCause ==
    (NameRuleRan /\ name.t = "str" /\ name.s # <<>> /\ ~NAME_PATTERN(name.s)) =>
        LET has(S) == \E i \in DOMAIN name.s : name.s[i] \in S
            format == SelectSeq(name_issues, LAMBDA issue : issue.message.text \in FormatTexts)
            only(level, text) ==
                /\ Len(format) = 1
                /\ format[1].level = level
                /\ format[1].message.text = text
        IN  IF has(UpperSet) THEN only("error", "Field 'name' must be lowercase")
            ELSE IF has({" "})
            THEN only("error", "Field 'name' cannot contain spaces (use hyphens)")
            ELSE IF has({"_"})
            THEN only("warning", "Field 'name' uses underscores (prefer hyphens for consistency)")
            ELSE IF \E i \in DOMAIN name.s : name.s[i] \notin LowerSet \cup DigitSet \cup {"-"}
            THEN only("error",
                      "Field 'name' must contain only lowercase letters, numbers, and hyphens")
            ELSE format = <<>>

\* validate_description has been applied to the description of the metadata
DescriptionRuleRan == pc \in {"body", "assemble"} \/ "RulesApplied" \in Stages

\* C17: a name that is missing, empty or no string gets exactly one Error
\* from the name rule and no other name issue; a description that is
\* missing, empty, whitespace-only or no string gets exactly one Error from
\* the description rule and no other description issue.
C17_OneErrorThenStop ==
    /\ (NameRuleRan /\ (name.t # "str" \/ name.s = <<>>)) =>
          /\ Len(name_issues) = 1
          /\ name_issues[1].level = "error"
          /\ name_issues[1].field = "name"
    /\ (DescriptionRuleRan
          /\ (description.t # "str"
                \/ \A i \in DOMAIN description.s : description.s[i] \in Whitespace)) =>
          /\ Len(desc_issues) = 1
          /\ desc_issues[1].level = "error"
          /\ desc_issues[1].field = "description"

\* An empty name and a whitespace-only description, both rules applied
C17_Witness ==
    /\ DescriptionRuleRan
    /\ name = PyStr(<<>>)
    /\ description = PyStr(<<" ", " ", " ">>)
    /\ Len(name_issues) = 1
    /\ Len(desc_issues) = 1

DescriptionIssues(level, text) ==
    Cardinality({i \in DOMAIN desc_issues :
        /\ desc_issues[i].level = level
        /\ desc_issues[i].field = "description"
        /\ desc_issues[i].message.text = text})

Count(condition) == IF condition THEN 1 ELSE 0

\* C18: for every non-blank string description the four checks are
\* independent: the too-long Error iff the length exceeds 1024, the markup
\* Error iff it contains '<' or '>', the too-short Warning iff the length is
\* below 50, the trigger-phrase Warning iff it contains none of 'when',
\* 'use this', 'should be used', 'helps with', 'for', letter case ignored;
\* the Warnings come whether or not an Error came.
C18_DescriptionChecksIndependent ==
    (DescriptionRuleRan /\ description.t = "str"
        /\ \E i \in DOMAIN description.s : description.s[i] \notin Whitespace) =>
        LET d == description.s
            long == Len(d) > 1024
            markup == \E i \in DOMAIN d : d[i] \in {"<", ">"}
            short == Len(d) < 50
            trigger == \E phrase \in { <<"w","h","e","n">>, <<"u","s","e"," ","t","h","i","s">>,
                                       <<"s","h","o","u","l","d"," ","b","e"," ","u","s","e","d">>,
                                       <<"h","e","l","p","s"," ","w","i","t","h">>,
                                       <<"f","o","r">> } :
                           Contains(Lower(d), phrase)
        IN  /\ DescriptionIssues("error",
                  "Field 'description' exceeds 1024 characters (got {})") = Count(long)
            /\ DescriptionIssues("error",
                  "Field 'description' cannot contain XML tags") = Count(markup)
            /\ DescriptionIssues("warning",
                  "Field 'description' is quite short - consider adding more detail")
                  = Count(short)
            /\ DescriptionIssues("warning",
                  "Description lacks trigger phrases - consider explaining when to use this skill")
                  = Count(~trigger)
            /\ Len(desc_issues) = Count(long) + Count(markup) + Count(short) + Count(~trigger)

\* Two Errors and a Warning on one description
C18_Witness ==
    /\ DescriptionRuleRan
    /\ description.t = "str"
    /\ Len(description.s) > 1024
    /\ Len(OfLevel(desc_issues, "error")) = 2
    /\ Len(OfLevel(desc_issues, "warning")) = 1

\* validate_body has been applied to the body
BodyRuleRan == pc = "assemble" \/ "RulesApplied" \in Stages

BodyIssues(level, text) ==
    Cardinality({i \in DOMAIN body_issues :
        /\ body_issues[i].level = level
        /\ body_issues[i].field = "body"
        /\ body_issues[i].message.text = text})

\* C19: the body rule emits exactly one Error and nothing else for an empty
\* or all-whitespace body; for any other body it emits no Error, the
\* too-short Warning iff the whitespace-delimited word count is below 100,
\* the very-long Warning iff it is above 5000 (never both, neither at exactly
\* 100 or 5000 words), and the no-examples Warning iff no example or
\* workflow marker occurs, letter case ignored.
C19_BodyRule ==
    BodyRuleRan =>
        IF \A i \in DOMAIN body : body[i] \in Whitespace
        THEN /\ Len(body_issues) = 1
             /\ body_issues[1].level = "error"
        ELSE LET words == WordCount(body)
                 short == BodyIssues("warning",
                    "Skill body is quite short ({} words) - consider adding more detail")
                 long == BodyIssues("warning",
                    "Skill body is very long ({} words) - consider moving details to references/")
                 plain == BodyIssues("warning",
                    "No examples or task/workflow guidance found - consider adding short examples or task steps")
             IN  /\ OfLevel(body_issues, "error") = <<>>
                 /\ short = Count(words < 100)
                 /\ long = Count(words > 5000)
                 /\ short + long <= 1
                 /\ words \in {100, 5000} => short + long = 0
                 /\ plain = Count(\A marker \in example_markers :
                                     ~Contains(Lower(body), marker))
                 /\ Len(body_issues) = short + long + plain

\* A body of exactly 100 words without a marker: the no-examples Warning only
C19_Witness ==
    /\ BodyRuleRan
    /\ WordCount(body) = 100
    /\ Len(body_issues) = 1
    /\ body_issues[1].level = "warning"

\* The document read has a metadata block between two delimiter lines that
\* is empty, blank, or the null value alone
NullBlock ==
    LET lines == Split(content)
        written == SelectSeq(BlockLines, LAMBDA line : Strip(line) # <<>>)
    IN  /\ lines[1] = <<"-", "-", "-">>
        /\ frontmatter_end(lines) # 0
        /\ lines[frontmatter_end(lines)] = <<"-", "-", "-">>
        /\ written \in {<<>>, << <<"n","u","l","l">> >>, << <<"~">> >>}

MetadataErrors ==
    SelectSeq(result[1].issues,
              LAMBDA issue : issue.level = "error" /\ issue.field # "body")

\* C20: a metadata block between two delimiter lines that is empty or parses
\* to null is no structural error: extraction returns an empty mapping with
\* zero keys and the body, the rules then run, and the only metadata errors
\* reported are the required-field errors for name and description (no
\* allowed-properties Error and no frontmatter Error).
C20_NullBlockIsEmptyMapping ==
    NullBlock =>
        /\ "ExtractFailed" \notin Stages
        /\ pc # "raised"
        /\ "Extracted" \in Stages =>
              /\ frontmatter = <<>>
              /\ LET lines == Split(content)
                 IN  body = Join(SubSeq(lines, frontmatter_end(lines) + 1, Len(lines)))
        /\ pc = "done" => "RulesApplied" \in Stages
        /\ Returned =>
              /\ "RulesApplied" \in Stages
              /\ Len(MetadataErrors) = 2
              /\ HasIssue(MetadataErrors, "name", "Required field 'name' is missing")
              /\ HasIssue(MetadataErrors, "description",
                          "Required field 'description' is missing")

\* A null block under the strict parser, the result built
C20_Witness ==
    /\ NullBlock
    /\ yaml
    /\ BlockLines = << <<"n","u","l","l">> >>
    /\ pc = "done"
    /\ Len(MetadataErrors) = 2

\* The blocking constraints on the document validated: the keys, the name,
\* the description and the body
KeysAllowed ==
    \A key \in KeysOf(frontmatter) :
        key.t = "str" /\ key.s \in ALLOWED_FRONTMATTER_PROPERTIES

NameAcceptable ==
    /\ name.t = "str"
    /\ name.s # <<>>
    /\ Len(name.s) <= 64
    /\ \A i \in DOMAIN name.s : name.s[i] \in LowerSet \cup DigitSet \cup {"_", "-"}
    /\ ~Contains(name.s, <<"c","l","a","u","d","e">>)
    /\ ~Contains(name.s, <<"a","n","t","h","r","o","p","i","c">>)

DescriptionAcceptable ==
    /\ description.t = "str"
    /\ \E i \in DOMAIN description.s : description.s[i] \notin Whitespace
    /\ Len(description.s) <= 1024
    /\ \A i \in DOMAIN description.s : description.s[i] \notin {"<", ">"}

BodyAcceptable == \E i \in DOMAIN body : body[i] \notin Whitespace

\* C21: whenever a result has valid = true, the document satisfied every
\* blocking constraint: all metadata keys are in the allow-list; the name is
\* a non-empty string of at most 64 characters with no uppercase letter, no
\* space, no '<' or '>', no reserved word, and only characters from
\* [a-z0-9_-]; the description is a non-blank string of at most 1024
\* characters without '<' or '>'; and the body is not blank.
C21_ValidMeansConstraintsHold ==
    (Returned /\ result[1].valid) =>
        /\ "RulesApplied" \in Stages
        /\ KeysAllowed
        /\ NameAcceptable
        /\ DescriptionAcceptable
        /\ BodyAcceptable

====
